---- MODULE Spec2Model ----
(***************************************************************************)
(* erowid_coin: a word-level Markov chain tweet generator.                 *)
(*                                                                         *)
(* MarkovChain.create_tweets(dir, number) reads every file of a directory, *)
(* splits it at whitespace and feeds the tokens to Graph.add, then calls   *)
(* Graph.generate_tweet `number` times.  A word is a sequence of           *)
(* characters (one-character strings), so that the two regular expressions *)
(* of the program are computed on the characters of the word.              *)
(***************************************************************************)
EXTENDS Integers, Sequences, FiniteSets, TLC

VARIABLES
  corpus,       \* the texts of the files of `dir`, in read_dir order (input)
  number,       \* create_tweets' `number` (input)
  pc,           \* position in create_tweets
  entry_idx,    \* number of directory entries read so far by parse_in
  contents,     \* the tokens of the entry being read (contents.split_whitespace())
  word_idx,     \* number of tokens of `contents` already passed to add
  last_word,    \* parse_in's last_word: Option<String>, <<>> or <<word>>
  graph,        \* Graph: [nodes, entry_words]
  words,        \* generate_tweet's words
  current_word, \* generate_tweet's current_word
  vec,          \* create_tweets' vec: the tweets generated so far
  iter_order,   \* per node already iterated: the order its HashMap enumerates its edges
  panic,        \* which panic ended the run, "none" while it runs
  \* a second run of the program on the same directory, for comparing two runs
  other_graph, other_words, other_current_word, other_vec, other_iter_order,
  \* the callers of create_tweets
  args,         \* main's args: the command line, program name first
  stdout,       \* the lines main has printed
  calls,        \* which call of create_tweets on this MarkovChain is running
  first_graph   \* the graph as the previous call of create_tweets left it

\* the state of the second run
others == <<other_graph, other_words, other_current_word, other_vec, other_iter_order>>

\* the state of the callers of create_tweets
outer == <<args, stdout, calls, first_graph>>

vars == <<corpus, number, pc, entry_idx, contents, word_idx, last_word, graph,
          words, current_word, vec, iter_order, panic, others, outer>>

----------------------------------------------------------------------------
(* Bounds of the model *)

\* total number of tokens of a generated corpus
MaxTokens == 3
\* number of files of a generated corpus
MaxDocs == 2
\* largest `number` passed to create_tweets
MaxTweets == 2
\* longest walk (in words) the model follows
MaxWalk == 4

\* create_tweets is called at most this many times on one MarkovChain
MaxCalls == 2

----------------------------------------------------------------------------
(* Words and texts *)

Hi == <<"H", "i">>
we == <<"w", "e">>
go_ == <<"g", "o", ".">>

The == <<"T", "h", "e">>
cat == <<"c", "a", "t">>
sat_ == <<"s", "a", "t", ".">>
ran_ == <<"r", "a", "n", ".">>
Hello == <<"H", "e", "l", "l", "o">>
world_ == <<"w", "o", "r", "l", "d", ".">>
Goodbye == <<"G", "o", "o", "d", "b", "y", "e">>
now_ == <<"n", "o", "w", ".">>
Go == <<"G", "o">>
up_ == <<"u", "p", "!">>
on_ == <<"o", "n", "?">>
a_pipe == <<"a", "|">>
Yes_ == <<"Y", "e", "s", "!">>

\* the words of the generated corpora: capitalized, plain and sentence-final
GenVocab == {Hi, we, go_}

Whitespace == {" ", "\t", "\n"}

UpperAZ == {"A", "B", "C", "D", "E", "F", "G", "H", "I", "J", "K", "L", "M",
            "N", "O", "P", "Q", "R", "S", "T", "U", "V", "W", "X", "Y", "Z"}

\* Option<String>
None == <<>>
Some(w) == <<w>>

\* Vec<String>::join(" ")
RECURSIVE join(_)
join(ws) ==
  IF ws = <<>> THEN <<>>
  ELSE IF Len(ws) = 1 THEN ws[1]
  ELSE ws[1] \o <<" ">> \o join(Tail(ws))

\* str::split_whitespace: the maximal runs of non-whitespace characters
RECURSIVE split_from(_, _, _, _)
split_from(text, i, cur, acc) ==
  IF i > Len(text)
  THEN IF cur = <<>> THEN acc ELSE Append(acc, cur)
  ELSE IF text[i] \in Whitespace
       THEN split_from(text, i + 1, <<>>, IF cur = <<>> THEN acc ELSE Append(acc, cur))
       ELSE split_from(text, i + 1, Append(cur, text[i]), acc)

split_whitespace(text) == split_from(text, 1, <<>>, <<>>)

----------------------------------------------------------------------------
(* The inputs: directories of text files *)

TokenDocs(t) == UNION {[1..n -> GenVocab] : n \in 0..t}

RECURSIVE TokenCorpora(_, _)
TokenCorpora(d, t) ==
  IF d = 0 THEN {<<>>}
  ELSE {<<>>} \cup
       UNION {{<<doc>> \o rest : rest \in TokenCorpora(d - 1, t - Len(doc))} :
              doc \in TokenDocs(t)}

TextOf(tokdocs) == [i \in 1..Len(tokdocs) |-> join(tokdocs[i])]

GenCorpora == {TextOf(c) : c \in TokenCorpora(MaxDocs, MaxTokens)}

\* "The cat sat. The cat ran."
TheCatCorpus == <<join(<<The, cat, sat_, The, cat, ran_>>)>>
\* "Hello"
HelloCorpus == <<Hello>>
\* "Hello world." and "Goodbye now."
HelloGoodbyeCorpus == <<join(<<Hello, world_>>), join(<<Goodbye, now_>>)>>
\* "Go up! Go on? Go on? Go on?": a node with edges {up!: 1, on?: 3}
WeightedCorpus == <<join(<<Go, up_, Go, on_, Go, on_, Go, on_>>)>>
\* "Hi a|"
PipeCorpus == <<join(<<Hi, a_pipe>>)>>
\* "  Yes!\n\nHi \t go.\n": irregular whitespace, a capitalized sentence-final word
RaggedCorpus == <<<<" ", " ">> \o Yes_ \o <<"\n", "\n">> \o Hi \o <<" ", "\t", " ">>
                  \o go_ \o <<"\n">>>>

ScenarioCorpora == {TheCatCorpus, HelloCorpus, HelloGoodbyeCorpus, WeightedCorpus,
                    PipeCorpus, RaggedCorpus}

Corpora == GenCorpora \cup ScenarioCorpora

----------------------------------------------------------------------------
(* Node *)

EmptyMap == [w \in {} |-> 0]

Node_new == [edges |-> EmptyMap, sum |-> 0]

\* strengthen_edge without line 142: the weight grows, the sum does not
strengthen_edge_keeps_sum(node, next) ==
  LET weight == IF next \in DOMAIN node.edges THEN node.edges[next] ELSE 0
  IN  [edges |-> [w \in DOMAIN node.edges \cup {next} |->
                    IF w = next THEN weight + 1 ELSE node.edges[w]],
       sum |-> node.sum]

\* strengthen_edge with `self.sum += 2`
strengthen_edge_sum_twice(node, next) ==
  LET weight == IF next \in DOMAIN node.edges THEN node.edges[next] ELSE 0
  IN  [edges |-> [w \in DOMAIN node.edges \cup {next} |->
                    IF w = next THEN weight + 1 ELSE node.edges[w]],
       sum |-> node.sum + 2]

strengthen_edge(node, next) ==
  LET weight == IF next \in DOMAIN node.edges THEN node.edges[next] ELSE 0
  IN  [edges |-> [w \in DOMAIN node.edges \cup {next} |->
                    IF w = next THEN weight + 1 ELSE node.edges[w]],
       sum |-> node.sum + 1]

\* the loop of Node::next with `number < 0` for `number <= 0`
RECURSIVE next_loop_strict(_, _, _, _)
next_loop_strict(node, order, i, n) ==
  IF i > Len(order) THEN None
  ELSE LET left == n - node.edges[order[i]]
       IN  IF left < 0 THEN Some(order[i])
           ELSE next_loop_strict(node, order, i + 1, left)

\* the for loop of Node::next over the edges in the order `order`, from position i
\* with `number` left; None when the loop ends without returning
RECURSIVE next_loop(_, _, _, _)
next_loop(node, order, i, n) ==
  IF i > Len(order) THEN None
  ELSE LET left == n - node.edges[order[i]]
       IN  IF left <= 0 THEN Some(order[i])
           ELSE next_loop(node, order, i + 1, left)

\* Node::next with the drawn number `draw`; None is the panic of line 135
Node_next(node, order, draw) == next_loop(node, order, 1, draw)

\* the orders in which a HashMap with these keys can enumerate them
Orders(keys) ==
  {o \in [1..Cardinality(keys) -> keys] : \A k \in keys : \E i \in DOMAIN o : o[i] = k}

----------------------------------------------------------------------------
(* Graph *)

Graph_new == [nodes |-> EmptyMap, entry_words |-> <<>>]

\* the pattern without the full stop in its class
terminal_is_match_no_stop(word) ==
  Len(word) >= 1 /\ word[Len(word)] \in {"!", "|", "?"}

\* Regex ".*[!|.|?]$": the class holds the four characters ! | . ?
terminal_is_match(word) ==
  Len(word) >= 1 /\ word[Len(word)] \in {"!", "|", ".", "?"}

\* the expression without its character class: any first character matches
uppercase_is_match_any(word) ==
  Len(word) >= 1

\* Regex "\A[A-Z]\w*"
uppercase_is_match(word) ==
  Len(word) >= 1 /\ word[1] \in UpperAZ

\* lines 91-97 with the push to entry_words outside the contains_key test
add_insert_pushes_always(g, word) ==
  [nodes |-> [w \in DOMAIN g.nodes \cup {word} |->
                IF w \in DOMAIN g.nodes THEN g.nodes[w] ELSE Node_new],
   entry_words |-> IF uppercase_is_match(word)
                   THEN Append(g.entry_words, word)
                   ELSE g.entry_words]

\* lines 91-97 with the two tests merged: only a capitalized word gets a node
add_insert_capitalized_only(g, word) ==
  IF word \notin DOMAIN g.nodes /\ uppercase_is_match(word)
  THEN [nodes |-> [w \in DOMAIN g.nodes \cup {word} |->
                     IF w = word THEN Node_new ELSE g.nodes[w]],
        entry_words |-> Append(g.entry_words, word)]
  ELSE g

\* lines 91-97 of Graph::add
add_insert(g, word) ==
  IF word \notin DOMAIN g.nodes
  THEN [nodes |-> [w \in DOMAIN g.nodes \cup {word} |->
                     IF w = word THEN Node_new ELSE g.nodes[w]],
        entry_words |-> IF uppercase_is_match(word)
                        THEN Append(g.entry_words, word)
                        ELSE g.entry_words]
  ELSE g

\* whether nodes.get_mut(&last_word).unwrap() of line 100 panics
add_unwrap_fails(g, word, lw) ==
  lw # None /\ lw[1] \notin DOMAIN add_insert(g, word).nodes

\* Graph::add with the edge drawn backwards, from word to last_word
add_reversed(g, word, lw) ==
  LET g1 == add_insert(g, word)
  IN  IF lw # None
      THEN [g1 EXCEPT !.nodes[word] = strengthen_edge(@, lw[1])]
      ELSE g1

\* Graph::add, when line 100 does not panic
add(g, word, lw) ==
  LET g1 == add_insert(g, word)
  IN  IF lw # None
      THEN [g1 EXCEPT !.nodes[lw[1]] = strengthen_edge(@, word)]
      ELSE g1

----------------------------------------------------------------------------
(* MarkovChain::parse_in *)

Init ==
  /\ corpus \in Corpora
  /\ number \in 0..MaxTweets
  /\ pc = "parse_in"
  /\ entry_idx = 0
  /\ contents = <<>>
  /\ word_idx = 0
  /\ last_word = None
  /\ graph = Graph_new
  /\ words = <<>>
  /\ current_word = <<>>
  /\ vec = <<>>
  /\ iter_order = EmptyMap
  /\ panic = "none"
  /\ other_graph = Graph_new
  /\ other_words = <<>>
  /\ other_current_word = <<>>
  /\ other_vec = <<>>
  /\ other_iter_order = EmptyMap
  /\ args = <<>>
  /\ stdout = <<>>
  /\ calls = 1
  /\ first_graph = Graph_new

\* the inner for loop has passed every token of the entry being read
EntryDone == word_idx = Len(contents)

\* lines 16-22 with last_word declared outside the loop over the entries
ReadEntry_keeps_last_word ==
  /\ pc = "parse_in"
  /\ word_idx = Len(contents)
  /\ entry_idx < Len(corpus)
  /\ entry_idx' = entry_idx + 1
  /\ contents' = split_whitespace(corpus[entry_idx + 1])
  /\ word_idx' = 0
  /\ UNCHANGED <<corpus, number, pc, last_word, graph, words, current_word, vec,
                 iter_order, panic>>
  /\ UNCHANGED others
  /\ UNCHANGED outer

\* lines 16-22: the next directory entry is read and split, last_word starts as None
ReadEntry ==
  /\ pc = "parse_in"
  /\ EntryDone
  /\ entry_idx < Len(corpus)
  /\ entry_idx' = entry_idx + 1
  /\ contents' = split_whitespace(corpus[entry_idx + 1])
  /\ word_idx' = 0
  /\ last_word' = None
  /\ UNCHANGED <<corpus, number, pc, graph, words, current_word, vec, iter_order, panic>>
  /\ UNCHANGED others
  /\ UNCHANGED outer

\* lines 24-27: one token is added to the graph
AddWord ==
  /\ pc = "parse_in"
  /\ word_idx < Len(contents)
  /\ LET word == contents[word_idx + 1]
     IN  IF add_unwrap_fails(graph, word, last_word)
         THEN /\ pc' = "panicked"
              /\ panic' = "add: unwrap on None"
              /\ UNCHANGED <<graph, word_idx, last_word>>
         ELSE /\ graph' = add(graph, word, last_word)
              /\ word_idx' = word_idx + 1
              /\ last_word' = Some(word)
              /\ UNCHANGED <<pc, panic>>
  /\ UNCHANGED <<corpus, number, entry_idx, contents, words, current_word, vec, iter_order>>
  /\ UNCHANGED others
  /\ UNCHANGED outer

\* line 29 and lines 37-39: parse_in returns Ok, create_tweets goes on to generate
ParseDone ==
  /\ pc = "parse_in"
  /\ EntryDone
  /\ entry_idx = Len(corpus)
  /\ pc' = "generate"
  /\ UNCHANGED <<corpus, number, entry_idx, contents, word_idx, last_word, graph,
                 words, current_word, vec, iter_order, panic>>
  /\ UNCHANGED others
  /\ UNCHANGED outer

----------------------------------------------------------------------------
(* Graph::generate_tweet and the loop of MarkovChain::create_tweets *)

\* the range of line 41 taken inclusive: `0..=number`
more_tweets_inclusive(done, n) == done <= n

\* whether `for _ in 0..number` has another iteration after `done` of them
more_tweets(done, n) == done < n

\* entry_words.choose(&mut rng), when the slice is not empty and the rng picks index i
random_entry_word(g, i) == g.entry_words[i]

\* the loop with a cap on the length of the walk
walk_continues_capped(word) == ~terminal_is_match(word) /\ Len(words) < 3

\* the condition of the while loop of line 71
walk_continues(word) == ~terminal_is_match(word)

\* rng.gen_range(1..=sum) panics on an empty range
gen_range_panics(node) == node.sum < 1

\* the orders in which the edges of the node of `word` may be enumerated, `io`
\* holding the orders already seen: a HashMap that is not modified enumerates its
\* entries in the same order every time
IterOrders(g, io, word) ==
  IF word \in DOMAIN io THEN {io[word]}
  ELSE Orders(DOMAIN g.nodes[word].edges)

\* a map whose enumeration order is not kept from one iteration to the next
Remember_forgets(io, word, order) == io

Remember(io, word, order) ==
  [w \in DOMAIN io \cup {word} |-> IF w = word THEN order ELSE io[w]]

\* lines 41-42 and 66-68 with unwrap_or_default for unwrap: an empty entry set
\* gives an empty tweet
GenerateStart_empty_tweet ==
  /\ pc = "generate"
  /\ more_tweets(Len(vec), number)
  /\ IF graph.entry_words = <<>>
     THEN /\ vec' = Append(vec, <<>>)
          /\ UNCHANGED <<pc, panic, words, current_word>>
     ELSE \E i \in 1..Len(graph.entry_words) :
            /\ words' = <<random_entry_word(graph, i)>>
            /\ current_word' = random_entry_word(graph, i)
            /\ pc' = "walk"
            /\ UNCHANGED <<panic, vec>>
  /\ UNCHANGED <<corpus, number, entry_idx, contents, word_idx, last_word, graph,
                 iter_order>>
  /\ UNCHANGED others
  /\ UNCHANGED outer

\* lines 41-42 and 66-68: another tweet is wanted, its first word is drawn
GenerateStart ==
  /\ pc = "generate"
  /\ more_tweets(Len(vec), number)
  /\ IF graph.entry_words = <<>>
     THEN /\ pc' = "panicked"
          /\ panic' = "random_entry_word: unwrap on None"
          /\ UNCHANGED <<words, current_word>>
     ELSE \E i \in 1..Len(graph.entry_words) :
            /\ words' = <<random_entry_word(graph, i)>>
            /\ current_word' = random_entry_word(graph, i)
            /\ pc' = "walk"
            /\ UNCHANGED panic
  /\ UNCHANGED <<corpus, number, entry_idx, contents, word_idx, last_word, graph,
                 vec, iter_order>>
  /\ UNCHANGED others
  /\ UNCHANGED outer

\* lines 71-77 with the walked edge strengthened, through a get_mut for the get
WalkStep_reinforces ==
  /\ pc = "walk"
  /\ walk_continues(current_word)
  /\ Len(words) < MaxWalk
  /\ IF current_word \notin DOMAIN graph.nodes
     THEN /\ pc' = "panicked"
          /\ panic' = "generate_tweet: unwrap on None"
          /\ UNCHANGED <<words, current_word, iter_order, graph>>
     ELSE LET last_node == graph.nodes[current_word]
          IN  IF gen_range_panics(last_node)
              THEN /\ pc' = "panicked"
                   /\ panic' = "gen_range: empty range"
                   /\ UNCHANGED <<words, current_word, iter_order, graph>>
              ELSE \E draw \in 1..last_node.sum, order \in IterOrders(graph, iter_order, current_word) :
                     LET r == Node_next(last_node, order, draw)
                     IN  /\ iter_order' = Remember(iter_order, current_word, order)
                         /\ IF r = None
                            THEN /\ pc' = "panicked"
                                 /\ panic' = "the edge weights do not match the sum"
                                 /\ UNCHANGED <<words, current_word, graph>>
                            ELSE /\ current_word' = r[1]
                                 /\ words' = Append(words, r[1])
                                 /\ graph' = [graph EXCEPT !.nodes[current_word] =
                                                strengthen_edge(@, r[1])]
                                 /\ UNCHANGED <<pc, panic>>
  /\ UNCHANGED <<corpus, number, entry_idx, contents, word_idx, last_word, vec>>
  /\ UNCHANGED others
  /\ UNCHANGED outer

\* lines 71-77: one iteration of the while loop
WalkStep ==
  /\ pc = "walk"
  /\ walk_continues(current_word)
  /\ Len(words) < MaxWalk
  /\ IF current_word \notin DOMAIN graph.nodes
     THEN /\ pc' = "panicked"
          /\ panic' = "generate_tweet: unwrap on None"
          /\ UNCHANGED <<words, current_word, iter_order>>
     ELSE LET last_node == graph.nodes[current_word]
          IN  IF gen_range_panics(last_node)
              THEN /\ pc' = "panicked"
                   /\ panic' = "gen_range: empty range"
                   /\ UNCHANGED <<words, current_word, iter_order>>
              ELSE \E draw \in 1..last_node.sum, order \in IterOrders(graph, iter_order, current_word) :
                     LET r == Node_next(last_node, order, draw)
                     IN  /\ iter_order' = Remember(iter_order, current_word, order)
                         /\ IF r = None
                            THEN /\ pc' = "panicked"
                                 /\ panic' = "the edge weights do not match the sum"
                                 /\ UNCHANGED <<words, current_word>>
                            ELSE /\ current_word' = r[1]
                                 /\ words' = Append(words, r[1])
                                 /\ UNCHANGED <<pc, panic>>
  /\ UNCHANGED <<corpus, number, entry_idx, contents, word_idx, last_word, graph, vec>>
  /\ UNCHANGED others
  /\ UNCHANGED outer

\* lines 71, 79 and 42: the loop ends, the words are joined and pushed to vec
WalkReturn ==
  /\ pc = "walk"
  /\ ~walk_continues(current_word)
  /\ vec' = Append(vec, join(words))
  /\ words' = <<>>
  /\ current_word' = <<>>
  /\ pc' = "generate"
  /\ UNCHANGED <<corpus, number, entry_idx, contents, word_idx, last_word, graph,
                 iter_order, panic>>
  /\ UNCHANGED others
  /\ UNCHANGED outer

\* line 45: create_tweets returns vec
CreateTweetsReturn ==
  /\ pc = "generate"
  /\ ~more_tweets(Len(vec), number)
  /\ pc' = "done"
  /\ UNCHANGED <<corpus, number, entry_idx, contents, word_idx, last_word, graph,
                 words, current_word, vec, iter_order, panic>>
  /\ UNCHANGED others
  /\ UNCHANGED outer

Next ==
  \/ ReadEntry
  \/ AddWord
  \/ ParseDone
  \/ GenerateStart
  \/ WalkStep
  \/ WalkReturn
  \/ CreateTweetsReturn

Spec == Init /\ [][Next]_vars

----------------------------------------------------------------------------
(* Two runs of create_tweets on the same directory and number, side by side.    *)
(* Both runs receive the same random draws; each has its own hash maps, which   *)
(* enumerate their entries in an order of their own.                            *)

\* lines 24-27 in both runs
PairAddWord ==
  /\ pc = "parse_in"
  /\ word_idx < Len(contents)
  /\ LET word == contents[word_idx + 1]
     IN  IF add_unwrap_fails(graph, word, last_word)
            \/ add_unwrap_fails(other_graph, word, last_word)
         THEN /\ pc' = "panicked"
              /\ panic' = "add: unwrap on None"
              /\ UNCHANGED <<graph, other_graph, word_idx, last_word>>
         ELSE /\ graph' = add(graph, word, last_word)
              /\ other_graph' = add(other_graph, word, last_word)
              /\ word_idx' = word_idx + 1
              /\ last_word' = Some(word)
              /\ UNCHANGED <<pc, panic>>
  /\ UNCHANGED <<corpus, number, entry_idx, contents, words, current_word, vec, iter_order>>
  /\ UNCHANGED <<other_words, other_current_word, other_vec, other_iter_order>>
  /\ UNCHANGED outer

\* lines 41-42 and 66-68 in both runs, choose drawing the same index
PairGenerateStart ==
  /\ pc = "generate"
  /\ more_tweets(Len(vec), number)
  /\ IF graph.entry_words = <<>> \/ other_graph.entry_words = <<>>
     THEN /\ pc' = "panicked"
          /\ panic' = "random_entry_word: unwrap on None"
          /\ UNCHANGED <<words, current_word, other_words, other_current_word>>
     ELSE \E i \in (1..Len(graph.entry_words)) \cap (1..Len(other_graph.entry_words)) :
            /\ words' = <<random_entry_word(graph, i)>>
            /\ current_word' = random_entry_word(graph, i)
            /\ other_words' = <<random_entry_word(other_graph, i)>>
            /\ other_current_word' = random_entry_word(other_graph, i)
            /\ pc' = "walk"
            /\ UNCHANGED panic
  /\ UNCHANGED <<corpus, number, entry_idx, contents, word_idx, last_word, graph,
                 vec, iter_order>>
  /\ UNCHANGED <<other_graph, other_vec, other_iter_order>>
  /\ UNCHANGED outer

\* lines 71-77 in both runs, gen_range drawing the same number
PairWalkStep ==
  /\ pc = "walk"
  /\ walk_continues(current_word)
  /\ walk_continues(other_current_word)
  /\ Len(words) < MaxWalk
  /\ IF current_word \notin DOMAIN graph.nodes
        \/ other_current_word \notin DOMAIN other_graph.nodes
     THEN /\ pc' = "panicked"
          /\ panic' = "generate_tweet: unwrap on None"
          /\ UNCHANGED <<words, current_word, iter_order>>
          /\ UNCHANGED <<other_words, other_current_word, other_iter_order>>
     ELSE LET last_node == graph.nodes[current_word]
              other_node == other_graph.nodes[other_current_word]
          IN  IF gen_range_panics(last_node) \/ gen_range_panics(other_node)
              THEN /\ pc' = "panicked"
                   /\ panic' = "gen_range: empty range"
                   /\ UNCHANGED <<words, current_word, iter_order>>
                   /\ UNCHANGED <<other_words, other_current_word, other_iter_order>>
              ELSE \E draw \in (1..last_node.sum) \cap (1..other_node.sum),
                      order \in IterOrders(graph, iter_order, current_word),
                      other_order \in IterOrders(other_graph, other_iter_order,
                                                 other_current_word) :
                     LET r == Node_next(last_node, order, draw)
                         other_r == Node_next(other_node, other_order, draw)
                     IN  /\ iter_order' = Remember(iter_order, current_word, order)
                         /\ other_iter_order' =
                              Remember(other_iter_order, other_current_word, other_order)
                         /\ IF r = None \/ other_r = None
                            THEN /\ pc' = "panicked"
                                 /\ panic' = "the edge weights do not match the sum"
                                 /\ UNCHANGED <<words, current_word>>
                                 /\ UNCHANGED <<other_words, other_current_word>>
                            ELSE /\ current_word' = r[1]
                                 /\ words' = Append(words, r[1])
                                 /\ other_current_word' = other_r[1]
                                 /\ other_words' = Append(other_words, other_r[1])
                                 /\ UNCHANGED <<pc, panic>>
  /\ UNCHANGED <<corpus, number, entry_idx, contents, word_idx, last_word, graph, vec>>
  /\ UNCHANGED <<other_graph, other_vec>>
  /\ UNCHANGED outer

\* lines 71, 79 and 42 in both runs
PairWalkReturn ==
  /\ pc = "walk"
  /\ ~walk_continues(current_word)
  /\ ~walk_continues(other_current_word)
  /\ vec' = Append(vec, join(words))
  /\ other_vec' = Append(other_vec, join(other_words))
  /\ words' = <<>>
  /\ current_word' = <<>>
  /\ other_words' = <<>>
  /\ other_current_word' = <<>>
  /\ pc' = "generate"
  /\ UNCHANGED <<corpus, number, entry_idx, contents, word_idx, last_word, graph,
                 iter_order, panic>>
  /\ UNCHANGED <<other_graph, other_iter_order>>
  /\ UNCHANGED outer

PairNext ==
  \/ ReadEntry
  \/ PairAddWord
  \/ ParseDone
  \/ PairGenerateStart
  \/ PairWalkStep
  \/ PairWalkReturn
  \/ CreateTweetsReturn

PairSpec == Init /\ [][PairNext]_vars

----------------------------------------------------------------------------
(* create_tweets called again on the same MarkovChain and directory *)

\* lines 36-37 entered once more: the graph built by the earlier calls is still in
\* self.graph; first_graph keeps the graph the first call left
CreateTweetsAgain ==
  /\ pc = "done"
  /\ calls < MaxCalls
  /\ calls' = calls + 1
  /\ first_graph' = IF calls = 1 THEN graph ELSE first_graph
  /\ pc' = "parse_in"
  /\ entry_idx' = 0
  /\ contents' = <<>>
  /\ word_idx' = 0
  /\ last_word' = None
  /\ words' = <<>>
  /\ current_word' = <<>>
  /\ vec' = <<>>
  /\ UNCHANGED <<corpus, number, graph, iter_order, panic, args, stdout>>
  /\ UNCHANGED others

AgainNext ==
  \/ ReadEntry
  \/ AddWord
  \/ ParseDone
  \/ GenerateStart
  \/ WalkStep
  \/ WalkReturn
  \/ CreateTweetsReturn
  \/ CreateTweetsAgain

AgainSpec == Init /\ [][AgainNext]_vars

----------------------------------------------------------------------------
(* main *)

ProgName == <<"e", "r", "o", "w", "i", "d", "c", "o", "i", "n">>
DirArg == <<"t", "x", "t">>
ExtraArg == <<"x">>

\* what may stand where the number of tweets is expected
CountArgs == {<<"0">>, <<"2">>, <<"+", "1">>, <<"-", "1">>, <<>>, <<"-">>, <<"a", "b", "c">>,
              <<"2", "x">>,
              <<"2", "1", "4", "7", "4", "8", "3", "6", "4", "8">>,
              <<"-", "2", "1", "4", "7", "4", "8", "3", "6", "4", "8">>,
              <<"-", "2", "1", "4", "7", "4", "8", "3", "6", "4", "9">>}

\* the command lines: no argument, the directory, the directory and a number,
\* and these followed by one more argument
ArgVectors ==
  {<<ProgName>>, <<ProgName, DirArg>>}
    \cup {<<ProgName, DirArg, c>> : c \in CountArgs}
    \cup {<<ProgName, DirArg, c, ExtraArg>> : c \in CountArgs}

DigitChars == <<"0", "1", "2", "3", "4", "5", "6", "7", "8", "9">>

DigitValue(c) == (CHOOSE i \in DOMAIN DigitChars : DigitChars[i] = c) - 1

\* the checked multiply-and-add of the parse loop: None once the value leaves
\* the range of i32 (-2147483648 ..= 2147483647)
checked_push(acc, d, negative) ==
  LET fits == IF negative
              THEN 0 - acc <= (IF d = 0 THEN 2147483647 \div 10
                               ELSE (2147483647 - (d - 1)) \div 10)
              ELSE acc <= (2147483647 - d) \div 10
  IN  IF ~fits THEN None
      ELSE Some(IF negative THEN 10 * acc - d ELSE 10 * acc + d)

RECURSIVE decimal(_, _, _)
decimal(digits, acc, negative) ==
  IF digits = <<>> THEN Some(acc)
  ELSE LET r == checked_push(acc, DigitValue(digits[1]), negative)
       IN  IF r = None THEN None ELSE decimal(Tail(digits), r[1], negative)

\* str::parse::<i32>: an optional sign and one or more digits, within the range of
\* i32; None for Err
parse_i32(s) ==
  LET signed == Len(s) >= 1 /\ s[1] \in {"+", "-"}
      digits == IF signed THEN Tail(s) ELSE s
  IN  IF digits = <<>> \/ \E k \in DOMAIN digits :
                            \A i \in DOMAIN DigitChars : DigitChars[i] # digits[k]
      THEN None
      ELSE decimal(digits, 0, s[1] = "-")

\* lines 15-38 of main: the arguments are read and create_tweets is called
Main ==
  /\ pc = "main"
  /\ IF Len(args) < 2
     THEN /\ stdout' = Append(stdout, [what |-> "usage"])
          /\ pc' = "exit"
          /\ UNCHANGED number
     ELSE IF Len(args) = 3 /\ parse_i32(args[3]) = None
          THEN /\ stdout' = Append(stdout, [what |-> "could not parse number of tweets"])
               /\ pc' = "exit"
               /\ UNCHANGED number
          ELSE /\ number' = IF Len(args) = 3 THEN parse_i32(args[3])[1] ELSE number
               /\ pc' = "parse_in"
               /\ UNCHANGED stdout
  /\ UNCHANGED <<corpus, entry_idx, contents, word_idx, last_word, graph, words,
                 current_word, vec, iter_order, panic, args, calls, first_graph>>
  /\ UNCHANGED others

\* the lines println!("{}\n", tweet) prints for the tweets from position i on
RECURSIVE printed(_, _)
printed(tweets, i) ==
  IF i > Len(tweets) THEN <<>>
  ELSE <<[what |-> "tweet", text |-> tweets[i]], [what |-> "blank"]>>
         \o printed(tweets, i + 1)

\* lines 40-42 of main: the tweets are printed, each followed by a blank line
MainPrint ==
  /\ pc = "done"
  /\ stdout' = stdout \o printed(vec, 1)
  /\ pc' = "exit"
  /\ UNCHANGED <<corpus, number, entry_idx, contents, word_idx, last_word, graph,
                 words, current_word, vec, iter_order, panic, args, calls, first_graph>>
  /\ UNCHANGED others

\* line 16: num_tweets starts as 1
MainInit ==
  /\ corpus \in Corpora
  /\ args \in ArgVectors
  /\ number = 1
  /\ pc = "main"
  /\ entry_idx = 0
  /\ contents = <<>>
  /\ word_idx = 0
  /\ last_word = None
  /\ graph = Graph_new
  /\ words = <<>>
  /\ current_word = <<>>
  /\ vec = <<>>
  /\ iter_order = EmptyMap
  /\ panic = "none"
  /\ other_graph = Graph_new
  /\ other_words = <<>>
  /\ other_current_word = <<>>
  /\ other_vec = <<>>
  /\ other_iter_order = EmptyMap
  /\ stdout = <<>>
  /\ calls = 1
  /\ first_graph = Graph_new

MainNext ==
  \/ Main
  \/ ReadEntry
  \/ AddWord
  \/ ParseDone
  \/ GenerateStart
  \/ WalkStep
  \/ WalkReturn
  \/ CreateTweetsReturn
  \/ MainPrint

MainSpec == MainInit /\ [][MainNext]_vars

----------------------------------------------------------------------------
(* What the properties speak about *)

\* the tokens of directory entry e
Tokens(e) == split_whitespace(corpus[e])

\* how many tokens of entry e have been passed to add
Processed(e) ==
  IF e < entry_idx THEN Len(Tokens(e))
  ELSE IF e = entry_idx THEN word_idx
  ELSE 0

\* the positions <<entry, index>> of the tokens passed to add so far
Positions == UNION {{<<e, k>> : k \in 1..Processed(e)} : e \in 1..Len(corpus)}

SeenTokens == {Tokens(p[1])[p[2]] : p \in Positions}

\* how often word a has been passed to add
Occurrences(a) == Cardinality({p \in Positions : Tokens(p[1])[p[2]] = a})

\* how often b stands right after a among the positions pos of the token
\* sequences toks
FollowedIn(toks, pos, a, b) ==
  Cardinality({p \in pos :
                 /\ p[2] >= 2
                 /\ toks[p[1]][p[2] - 1] = a
                 /\ toks[p[1]][p[2]] = b})

\* how often b has been passed to add right after a, inside one entry
Followed(a, b) ==
  FollowedIn([e \in 1..Len(corpus) |-> Tokens(e)], Positions, a, b)

\* the weight of the edge a -> b, 0 when there is none
Weight(a, b) ==
  IF a \in DOMAIN graph.nodes /\ b \in DOMAIN graph.nodes[a].edges
  THEN graph.nodes[a].edges[b]
  ELSE 0

HasEdge(a, b) == a \in DOMAIN graph.nodes /\ b \in DOMAIN graph.nodes[a].edges

RECURSIVE SumOver(_, _)
SumOver(f, S) ==
  IF S = {} THEN 0
  ELSE LET x == CHOOSE y \in S : TRUE IN f[x] + SumOver(f, S \ {x})

SumWeights(edges) == SumOver(edges, DOMAIN edges)

\* how often word a stands in the sequence q
CountIn(q, a) == Cardinality({i \in DOMAIN q : q[i] = a})

\* the words of a returned string
TweetWords(t) == split_whitespace(t)

\* a word ending in one of the three sentence-final characters
EndsSentence(word) == Len(word) >= 1 /\ word[Len(word)] \in {"!", ".", "?"}

\* a word that does not end a sentence and whose node has no outgoing edge
DeadEnd(word) ==
  /\ ~EndsSentence(word)
  /\ word \in DOMAIN graph.nodes
  /\ graph.nodes[word].sum = 0

Ingested == pc # "parse_in"

----------------------------------------------------------------------------
(* Properties *)

\* C1: after any sequence of add calls, every node's sum equals the sum of the
\* weights of its edges.
C1_SumEqualsEdgeWeights ==
  \A w \in DOMAIN graph.nodes :
    graph.nodes[w].sum = SumWeights(graph.nodes[w].edges)

C1_Witness ==
  \E w \in DOMAIN graph.nodes :
    /\ Cardinality(DOMAIN graph.nodes[w].edges) >= 2
    /\ graph.nodes[w].sum >= 4

\* C2: the last word of every string generate_tweet returns ends in '!', '.' or '?'.
C2_TweetEndsSentence ==
  \A i \in DOMAIN vec :
    /\ TweetWords(vec[i]) # <<>>
    /\ EndsSentence(TweetWords(vec[i])[Len(TweetWords(vec[i]))])

\* C3: the first word of every string generate_tweet returns is an element of the
\* entry set, and every element of the entry set is a token of the corpus whose
\* first character is an uppercase letter.
C3_FirstWordIsEntryWord ==
  /\ \A i \in DOMAIN vec :
       /\ TweetWords(vec[i]) # <<>>
       /\ CountIn(graph.entry_words, TweetWords(vec[i])[1]) >= 1
  /\ \A j \in DOMAIN graph.entry_words :
       /\ graph.entry_words[j] \in SeenTokens
       /\ graph.entry_words[j][1] \in UpperAZ

C3_Witness ==
  /\ Len(vec) >= 1
  /\ Len(graph.entry_words) >= 2
  /\ \E w \in SeenTokens : CountIn(graph.entry_words, w) = 0

\* C4: when the current word of the walk does not end a sentence and its node has
\* total weight 0, generate_tweet fails: it returns no string there and does not
\* walk on; for the corpus "Hello" every generation fails.
C4_DeadEndFails ==
  /\ \A i \in DOMAIN vec :
       /\ TweetWords(vec[i]) # <<>>
       /\ ~DeadEnd(TweetWords(vec[i])[Len(TweetWords(vec[i]))])
  /\ \A k \in 1..(Len(words) - 1) : ~DeadEnd(words[k])
  /\ corpus = HelloCorpus => vec = <<>> /\ (pc = "done" => number = 0)

C6_NextIsWeightProportional ==
  \A w \in DOMAIN graph.nodes :
    LET node == graph.nodes[w]
    IN  node.sum >= 1 =>
          \A order \in Orders(DOMAIN node.edges) :
            \A s \in DOMAIN node.edges :
              Cardinality({d \in 1..node.sum : Node_next(node, order, d) = Some(s)})
                = node.edges[s]

C6_Witness ==
  \E w \in DOMAIN graph.nodes :
    \E a, b \in DOMAIN graph.nodes[w].edges :
      graph.nodes[w].edges[a] = 1 /\ graph.nodes[w].edges[b] = 3

\* C7: the first token of every document is added with no previous word, and the
\* edge from the last token of a document to the first token of a later one gets
\* no weight from the boundary: its weight is the number of times the two words
\* stand next to each other inside a document.  After "Hello world." and
\* "Goodbye now." there is no edge from "world." to "Goodbye".
C7_NoCrossDocumentEdges ==
  /\ (pc = "parse_in" /\ word_idx = 0) => last_word = None
  /\ \A i, j \in 1..Len(corpus) :
       (i < j /\ Len(Tokens(i)) >= 1 /\ Processed(j) >= 1) =>
         Weight(Tokens(i)[Len(Tokens(i))], Tokens(j)[1])
           = Followed(Tokens(i)[Len(Tokens(i))], Tokens(j)[1])
  /\ (corpus = HelloGoodbyeCorpus /\ Ingested) => ~HasEdge(world_, Goodbye)

C7_Witness ==
  /\ corpus = HelloGoodbyeCorpus
  /\ pc = "done"
  /\ HasEdge(Hello, world_)
  /\ HasEdge(Goodbye, now_)

\* C9: for all words a and b, the edge a -> b is present exactly if b stood right
\* after a inside some document, and its weight is the number of such occurrences.
C9_WeightCountsAdjacency ==
  LET toks == [e \in 1..Len(corpus) |-> Tokens(e)]
      pos == Positions
      seen == {toks[p[1]][p[2]] : p \in pos}
  IN  \A a, b \in seen :
        LET n == FollowedIn(toks, pos, a, b)
        IN  /\ HasEdge(a, b) <=> n >= 1
            /\ Weight(a, b) = n
            /\ HasEdge(a, b) => Weight(a, b) >= 1

C9_Witness ==
  \E a, b \in SeenTokens :
    /\ Weight(a, b) >= 2
    /\ a # b
    /\ ~HasEdge(b, a)

\* C10: the node map has a node for every token seen, every key of every edges
\* map is a key of the node map, and the node lookups of add and of the walk
\* never miss.
C10_NodeForEveryWord ==
  /\ \A w \in SeenTokens : w \in DOMAIN graph.nodes
  /\ \A w \in DOMAIN graph.nodes : DOMAIN graph.nodes[w].edges \subseteq DOMAIN graph.nodes
  /\ pc = "walk" => current_word \in DOMAIN graph.nodes
  /\ panic \notin {"add: unwrap on None", "generate_tweet: unwrap on None"}

C10_Witness ==
  /\ pc = "walk"
  /\ Len(words) >= 3
  /\ \E w \in DOMAIN graph.nodes : graph.nodes[w].sum = 0

\* the two runs enumerated the edges of every node both have iterated alike
SameOrders ==
  \A w \in DOMAIN iter_order \cap DOMAIN other_iter_order :
    iter_order[w] = other_iter_order[w]

ThreeEdges(a, b) ==
  IF <<a, b>> = <<The, cat>> THEN 2
  ELSE IF <<a, b>> \in {<<cat, sat_>>, <<cat, ran_>>} THEN 1
  ELSE 0

\* C11 as stated: after "The cat sat. The cat ran." the nodes are The, cat, sat.
\* and ran., and the edges are The -> cat with weight 2, cat -> sat. with weight 1
\* and cat -> ran. with weight 1, and no other edge.
C11_TheCatThreeEdges ==
  (corpus = TheCatCorpus /\ Ingested) =>
    /\ DOMAIN graph.nodes = {The, cat, sat_, ran_}
    /\ \A a, b \in {The, cat, sat_, ran_} :
         /\ Weight(a, b) = ThreeEdges(a, b)
         /\ HasEdge(a, b) <=> ThreeEdges(a, b) >= 1

\* C11 as amended: after "The cat sat. The cat ran." the nodes are The, cat, sat.
\* and ran., and the edges are The -> cat with weight 2, cat -> sat. with weight 1,
\* cat -> ran. with weight 1 and sat. -> The with weight 1, and no other edge.
C11_TheCatFourEdges ==
  (corpus = TheCatCorpus /\ Ingested) =>
    /\ DOMAIN graph.nodes = {The, cat, sat_, ran_}
    /\ \A a, b \in {The, cat, sat_, ran_} :
         LET weight == IF <<a, b>> = <<sat_, The>> THEN 1 ELSE ThreeEdges(a, b)
         IN  /\ Weight(a, b) = weight
             /\ HasEdge(a, b) <=> weight >= 1

C11_Witness ==
  /\ corpus = TheCatCorpus
  /\ pc = "done"
  /\ HasEdge(sat_, The)

\* C12: for the corpus "The cat sat. The cat ran." every generate_tweet call,
\* whatever the draws and the enumeration orders, returns "The cat sat." or
\* "The cat ran."; it returns nothing else and does not fail.
C12_TheCatTweets ==
  corpus = TheCatCorpus =>
    /\ panic = "none"
    /\ pc # "panicked"
    /\ \A i \in DOMAIN vec :
         vec[i] \in {join(<<The, cat, sat_>>), join(<<The, cat, ran_>>)}
    /\ pc = "walk" =>
         words \in {<<The>>, <<The, cat>>, <<The, cat, sat_>>, <<The, cat, ran_>>}

C12_Witness ==
  /\ corpus = TheCatCorpus
  /\ Len(vec) = 2
  /\ vec[1] = join(<<The, cat, sat_>>)
  /\ vec[2] = join(<<The, cat, ran_>>)

\* C13: if the entry set is empty after ingestion, as it is when no token of the
\* corpus begins with an uppercase letter, every generate_tweet call fails when it
\* selects the start word and returns no string.
C13_EmptyEntrySetFails ==
  /\ (Ingested /\ \A w \in SeenTokens : w[1] \notin UpperAZ) => graph.entry_words = <<>>
  /\ (Ingested /\ graph.entry_words = <<>>) =>
       /\ vec = <<>>
       /\ pc # "walk"
       /\ pc = "done" => number <= 0
       /\ pc = "panicked" => panic = "random_entry_word: unwrap on None"

C13_Witness ==
  /\ panic = "random_entry_word: unwrap on None"
  /\ SeenTokens # {}
  /\ vec = <<>>


\* every token of every directory entry has been passed to add
AllAdded == \A e \in 1..Len(corpus) : entry_idx >= e /\ Processed(e) = Len(Tokens(e))

\* C14: within one create_tweets call every add call comes before every
\* generate_tweet call, and no generate_tweet call changes the node map, an edge
\* weight, a node's sum or the entry set.
C14_BuildThenSample ==
  /\ [](pc \in {"generate", "walk", "done"} => AllAdded)
  /\ [](pc = "parse_in" => (vec = <<>> /\ words = <<>> /\ current_word = <<>>))
  /\ [][pc # "parse_in" => graph' = graph]_vars

C14_Witness ==
  /\ pc = "walk"
  /\ Len(vec) >= 1
  /\ Len(words) >= 2
  /\ Len(corpus) >= 2


\* the successors of a word in the graph
Successors(w) == IF w \in DOMAIN graph.nodes THEN DOMAIN graph.nodes[w].edges ELSE {}

\* the words reachable from the words S along edges, S included
RECURSIVE Closure(_)
Closure(S) ==
  LET T == S \cup UNION {Successors(w) : w \in S}
  IN  IF T = S THEN S ELSE Closure(T)

\* the words reachable from w in one step or more
Reachable(w) == Closure(Successors(w))

\* w lies on a cycle from which no word ending a sentence can be reached
OnEndlessCycle(w) ==
  /\ w \in Reachable(w)
  /\ \A v \in Reachable(w) : ~EndsSentence(v)

\* the walk stops at v: the pattern of the loop matches it, or it has no successor
StopsWalk(v) ==
  \/ v[Len(v)] \in {"!", "|", ".", "?"}
  \/ Successors(v) = {}

\* w lies on a cycle from which no word can be reached at which the walk stops
OnClosedCycle(w) ==
  /\ w \in Reachable(w)
  /\ \A v \in Reachable(w) : ~StopsWalk(v)

\* C15 as stated: when the graph has a cycle from which no word ending a sentence
\* is reachable, a walk that has entered the cycle neither returns a string nor
\* fails.
C15_EndlessCycleNeverEnds ==
  /\ \A i \in DOMAIN vec :
       \A k \in DOMAIN TweetWords(vec[i]) : ~OnEndlessCycle(TweetWords(vec[i])[k])
  /\ pc = "panicked" => \A k \in DOMAIN words : ~OnEndlessCycle(words[k])

\* C15 as amended: when the graph has a cycle from which no word is reachable at
\* which the walk stops (none the loop's pattern matches, none without successor),
\* a walk that has entered the cycle neither returns a string nor fails, and its
\* next iteration finds a node with a successor to draw.
C15_ClosedCycleNeverEnds ==
  /\ \A i \in DOMAIN vec :
       \A k \in DOMAIN TweetWords(vec[i]) : ~OnClosedCycle(TweetWords(vec[i])[k])
  /\ pc = "panicked" => \A k \in DOMAIN words : ~OnClosedCycle(words[k])
  /\ (pc = "walk" /\ \E k \in DOMAIN words : OnClosedCycle(words[k])) =>
       /\ walk_continues(current_word)
       /\ current_word \in DOMAIN graph.nodes
       /\ graph.nodes[current_word].sum >= 1

C15_Witness ==
  /\ pc = "walk"
  /\ Len(words) = MaxWalk
  /\ OnClosedCycle(words[1])
  /\ \E k \in DOMAIN words : words[k] # words[1]


\* the text is words separated by one space each, with no other whitespace
SingleSpaced(t) ==
  /\ Len(t) >= 1
  /\ t[1] # " "
  /\ t[Len(t)] # " "
  /\ \A k \in DOMAIN t : t[k] \in Whitespace => t[k] = " "
  /\ \A k \in 1..(Len(t) - 1) : ~(t[k] = " " /\ t[k + 1] = " ")

\* C16: when every generation succeeds, create_tweets(dir, n) returns exactly n
\* strings for every n >= 0, pushed in the order they were generated, each made of
\* tokens of the corpus joined by single spaces; for n = 1 there is a first one.
C16_OneTweetPerCount ==
  /\ [](pc = "done" =>
          /\ Len(vec) = number
          /\ number = 1 => 1 \in DOMAIN vec
          /\ \A i \in DOMAIN vec :
               /\ SingleSpaced(vec[i])
               /\ \A k \in DOMAIN TweetWords(vec[i]) :
                    TweetWords(vec[i])[k] \in SeenTokens)
  /\ [][vec' = vec \/ (Len(vec') = Len(vec) + 1 /\ SubSeq(vec', 1, Len(vec)) = vec)]_vars

C16_Witness ==
  /\ pc = "done"
  /\ number = 2
  /\ Len(vec) = 2
  /\ vec[1] # vec[2]
  /\ Len(TweetWords(vec[1])) >= 2


\* C17: when an argument stands after the directory where the number of tweets is
\* expected and does not parse as an integer, main reports the error and exits
\* without ingesting the corpus or generating anything; without a directory
\* argument main prints the usage message and exits.
C17_BadCountStopsMain ==
  /\ (pc # "main" /\ Len(args) >= 3 /\ parse_i32(args[3]) = None) =>
       /\ pc = "exit"
       /\ stdout = <<[what |-> "could not parse number of tweets"]>>
       /\ graph = Graph_new
       /\ entry_idx = 0
       /\ vec = <<>>
  /\ (pc # "main" /\ Len(args) < 2) =>
       /\ pc = "exit"
       /\ stdout = <<[what |-> "usage"]>>
       /\ graph = Graph_new
       /\ entry_idx = 0
       /\ vec = <<>>


\* b has been passed to add right after a, inside one entry
ObservedAfter(a, b) ==
  \E e \in 1..Len(corpus) :
    \E k \in 2..Processed(e) : Tokens(e)[k - 1] = a /\ Tokens(e)[k] = b

\* the consecutive pairs of words of the sequence q are edges of the graph, of
\* weight at least 1, and stood next to each other in a document
FollowsEdges(q) ==
  \A k \in 1..(Len(q) - 1) :
    /\ HasEdge(q[k], q[k + 1])
    /\ Weight(q[k], q[k + 1]) >= 1
    /\ ObservedAfter(q[k], q[k + 1])

\* C18: in every returned string, and in the walk under way, every pair of
\* consecutive words (u, v) is an edge u -> v of weight at least 1: v stood right
\* after u in some document of the corpus.
C18_TweetFollowsEdges ==
  /\ \A i \in DOMAIN vec : FollowsEdges(TweetWords(vec[i]))
  /\ pc = "walk" => FollowsEdges(words)

C18_Witness ==
  /\ Len(vec) >= 1
  /\ Len(TweetWords(vec[1])) >= 3
  /\ \E a, b \in SeenTokens : HasEdge(a, b) /\ ~HasEdge(b, a)

\* C19: for every node with sum >= 1, every draw in 1..sum and every enumeration
\* order of its edges, Node::next returns a successor of the node, and the panic
\* "the edge weights do not match the sum" never happens.
C19_NextAlwaysFindsSuccessor ==
  /\ \A w \in DOMAIN graph.nodes :
       LET node == graph.nodes[w]
       IN  node.sum >= 1 =>
             \A order \in Orders(DOMAIN node.edges) :
               \A d \in 1..node.sum :
                 /\ Node_next(node, order, d) # None
                 /\ Node_next(node, order, d)[1] \in DOMAIN node.edges
  /\ panic # "the edge weights do not match the sum"

C19_Witness ==
  /\ pc = "walk"
  /\ Len(words) >= 2
  /\ \E w \in DOMAIN graph.nodes :
       /\ Cardinality(DOMAIN graph.nodes[w].edges) >= 2
       /\ graph.nodes[w].sum >= 3
       /\ \E k \in 1..(Len(words) - 1) : words[k] = w

\* C20: a second call of create_tweets on the same MarkovChain and corpus ingests
\* the corpus again: the node set and the entry set stay what the first call left,
\* and after the second ingestion every edge weight and every sum is exactly twice
\* what the first call left.
C20_SecondCallDoubles ==
  calls = 2 =>
    /\ DOMAIN graph.nodes = DOMAIN first_graph.nodes
    /\ graph.entry_words = first_graph.entry_words
    /\ \A w \in DOMAIN first_graph.nodes :
         DOMAIN graph.nodes[w].edges = DOMAIN first_graph.nodes[w].edges
    /\ Ingested =>
         \A w \in DOMAIN first_graph.nodes :
           /\ graph.nodes[w].sum = 2 * first_graph.nodes[w].sum
           /\ \A s \in DOMAIN first_graph.nodes[w].edges :
                graph.nodes[w].edges[s] = 2 * first_graph.nodes[w].edges[s]

C20_Witness ==
  /\ calls = 2
  /\ pc = "done"
  /\ Len(vec) >= 1
  /\ \E w \in DOMAIN graph.nodes :
       /\ graph.nodes[w].sum >= 4
       /\ Cardinality(DOMAIN graph.nodes[w].edges) >= 2
       /\ first_graph.nodes[w].sum >= 2

====
